---------------------------- MODULE Spec2Model ----------------------------
(* Model of twitterSearch.js: the premium-search pagination loop            *)
(* (search), its two REST helpers (getTwitterToken, getTweetBatch), the     *)
(* pacing timer (rateLimiter), the result file (fsp.writeFile / readFile)   *)
(* and the module's top level, which starts search and readTweetFile.       *)
(*                                                                          *)
(* JavaScript runs the code between two awaits without interruption, so     *)
(* every action below is one such run-to-completion step: the settling of   *)
(* the promise the code awaits, followed by all synchronous code up to the  *)
(* next await.                                                              *)
EXTENDS Integers, Sequences, FiniteSets, TLC

(***************************************************************************)
(* Bounds of the model (not program constants).                            *)
(***************************************************************************)
\* most tweets the server delivers in one run
MaxTweets == 3
\* most items in one page
MaxPageSize == 2
\* the call counters stop counting here
MaxCount == 3
\* longest raw text drawn for the checks of the text normalisation
MaxLen == 3

(***************************************************************************)
(* Values.  A JavaScript string is a sequence of one-character strings; an *)
(* optional property is a sequence of length 0 (absent) or 1.              *)
(***************************************************************************)
Chars == {"a", " ", "\n", "\r", "@", "#"}

None == << >>
Some(x) == << x >>

\* line 203
QUERY == "from:realDonaldTrump -RT"
\* the query an error does not carry
NoQuery == ""

\* the `next` property of a response: absent, null, or a string
CursorAbsent == "<undefined>"
CursorNull == "<null>"
Cursors == {CursorAbsent, CursorNull, "", "abc", "def"}

\* JavaScript truthiness of a cursor, as tested by `if (next)` and `while (next)`
Truthy(c) == c \notin {CursorAbsent, CursorNull, ""}

\* the items the server may return: one of each shape (the plain one begins
\* with '@' and has no created_at), and a truncated one without extended_tweet
RawItems ==
    { [truncated |-> FALSE, text |-> Some(<<"@", "a", "\n", "#", "a">>), full |-> None,
       created_at |-> None],
      [truncated |-> TRUE, text |-> Some(<<"a">>),
       full |-> Some(<<" ", "#", "a", "\r", "\n", "a", " ">>),
       created_at |-> Some("t2")],
      [truncated |-> TRUE, text |-> Some(<<"a">>), full |-> None,
       created_at |-> Some("t3")] }

RECURSIVE SeqsUpTo(_, _)
SeqsUpTo(S, n) ==
    IF n = 0 THEN { << >> }
    ELSE LET shorter == SeqsUpTo(S, n - 1)
         IN  shorter \cup { Append(s, x) : s \in { t \in shorter : Len(t) = n - 1 }, x \in S }

\* a parsed response body of the search endpoint: {results: [...], next?}
Pages ==
    [hasResults : {TRUE}, results : SeqsUpTo(RawItems, MaxPageSize), next : Cursors]
    \cup [hasResults : {FALSE}, results : { << >> }, next : Cursors]

(***************************************************************************)
(* Text normalisation, lines 133-140.                                      *)
(***************************************************************************)
\* what String.prototype.trim removes
IsSpace(c) == c \in {" ", "\n", "\r"}

RECURSIVE TrimLeft(_)
TrimLeft(s) ==
    IF s # << >> /\ IsSpace(Head(s)) THEN TrimLeft(Tail(s)) ELSE s

RECURSIVE TrimRight(_)
TrimRight(s) ==
    IF s # << >> /\ IsSpace(s[Len(s)]) THEN TrimRight(SubSeq(s, 1, Len(s) - 1)) ELSE s

\* .trim()
Trim(s) == TrimRight(TrimLeft(s))

\* .replace(/\r?\n|\r|@|#/g, ' '): the matches are taken left to right, and
\* "\r\n" is one match
RECURSIVE ReplaceAll(_)
ReplaceAll(s) ==
    IF s = << >> THEN << >>
    ELSE IF Len(s) >= 2 /\ s[1] = "\r" /\ s[2] = "\n"
         THEN <<" ">> \o ReplaceAll(SubSeq(s, 3, Len(s)))
    ELSE IF Head(s) \in {"\n", "\r", "@", "#"}
         THEN <<" ">> \o ReplaceAll(Tail(s))
    ELSE <<Head(s)>> \o ReplaceAll(Tail(s))

\* a mutant of NormalizeText: replace first, then trim
NormalizeTextTrimLast(t) == Trim(ReplaceAll(t))

\* lines 134/137 and 140: trim, then replace
NormalizeText(t) == ReplaceAll(Trim(t))

\* a mutant of SelectText: always the plain text
SelectTextPlain(item) == item.text

\* lines 133-138: the field the truncation flag selects
SelectText(item) == IF item.truncated THEN item.full ELSE item.text

\* lines 132-142, one item: a TypeError when the selected field is missing
\* (undefined has no .trim), else the tweet that is pushed
NormalizeItem(item) ==
    LET raw == SelectText(item)
    IN  IF raw = None
        THEN [ok |-> FALSE, tweet |-> [text |-> << >>, created_at |-> None]]
        ELSE [ok |-> TRUE,
              tweet |-> [text |-> NormalizeText(raw[1]), created_at |-> item.created_at]]

\* lines 131-143: the for loop over batch.results, pushing onto tweets; it
\* stops at the first item that throws, with the earlier items already pushed
RECURSIVE ProcessItems(_, _)
ProcessItems(acc, items) ==
    IF items = << >> THEN [ok |-> TRUE, tweets |-> acc]
    ELSE LET r == NormalizeItem(Head(items))
         IN  IF r.ok THEN ProcessItems(Append(acc, r.tweet), Tail(items))
             ELSE [ok |-> FALSE, tweets |-> acc]

\* a mutant of ProcessPage: the loop stops one item short (i < length - 1)
ProcessPageSkipLast(acc, page) ==
    IF page.hasResults
    THEN ProcessItems(acc, SubSeq(page.results, 1, Len(page.results) - 1))
    ELSE [ok |-> FALSE, tweets |-> acc]

\* a mutant of ProcessPage: a page is pushed only when all of it is well formed
ProcessPageAllOrNothing(acc, page) ==
    IF page.hasResults /\ ProcessItems(acc, page.results).ok
    THEN ProcessItems(acc, page.results)
    ELSE [ok |-> FALSE, tweets |-> acc]

\* lines 131-144 on one page: batch.results.length throws when results is missing
ProcessPage(acc, page) ==
    IF page.hasResults THEN ProcessItems(acc, page.results)
    ELSE [ok |-> FALSE, tweets |-> acc]

(***************************************************************************)
(* The result file, lines 158 and 198-199.                                 *)
(***************************************************************************)
\* JSON.stringify of one tweet: a property whose value is undefined is left out
StringifyTweet(t) ==
    << <<"text", t.text>> >>
    \o (IF t.created_at = None THEN << >> ELSE << <<"created_at", t.created_at>> >>)

\* line 158: JSON.stringify(tweets, null, 4), as the list of its objects
Stringify(tweets) == [i \in 1..Len(tweets) |-> StringifyTweet(tweets[i])]

\* JSON.parse of one object
ParseTweet(e) ==
    [text |-> e[1][2],
     created_at |-> IF Len(e) >= 2 THEN e[2][2] ELSE None]

\* line 199: JSON.parse
Parse(doc) == [i \in 1..Len(doc) |-> ParseTweet(doc[i])]

(***************************************************************************)
(* Errors and completions.                                                 *)
(***************************************************************************)
\* an Error object: where it was created, what it is, the HTTP status its
\* message holds (0: none), the query its message holds (NoQuery: none)
Err(origin, kind, status) ==
    [origin |-> origin, kind |-> kind, status |-> status, query |-> NoQuery]

NoErr == Err("none", "none", 0)

\* the non-2xx statuses the endpoints answer with in the model
FailStatus == {401, 503}

\* a mutant of HttpError: the status is left out of the message
HttpErrorNoStatus(origin, status) == Err(origin, "http", 0)

\* lines 58-59 and 98-99: new Error(msg), msg built from response.status alone
HttpError(origin, status) == Err(origin, "http", status)

\* how a request can fail: a non-2xx response, a rejected fetch (no response),
\* or a 2xx response whose body response.json() cannot parse
Failures ==
    [kind : {"http"}, status : FailStatus]
    \cup { [kind |-> "transport", status |-> 0], [kind |-> "json", status |-> 200] }

\* lines 45-67 and 82-107: the error thrown in, caught and rethrown by the helper
FailureError(origin, f) ==
    IF f.kind = "http" THEN HttpError(origin, f.status) ELSE Err(origin, f.kind, 0)

\* lines 93-100: the ways `await fetch` / `await response.json()` of
\* getTwitterToken fail: non-2xx (line 99), rejected fetch, unparsable body
TokenErrors ==
    { Err("getTwitterToken", "http", st) : st \in FailStatus }
    \cup { Err("getTwitterToken", "transport", 0), Err("getTwitterToken", "json", 0) }

\* lines 53-60: the same for getTweetBatch; line 58-59 builds the message
\* from the status alone
BatchErrors ==
    { Err("getTweetBatch", "http", st) : st \in FailStatus }
    \cup { Err("getTweetBatch", "transport", 0), Err("getTweetBatch", "json", 0) }

\* lines 131-141: a TypeError thrown while a page is processed
TypeErr == Err("search", "TypeError", 0)

\* line 158: fsp.writeFile rejects
WriteErr == Err("writeFile", "io", 0)

\* how the try/catch of search completes before its finally block runs
Return(n) == [kind |-> "return", count |-> n, err |-> NoErr]
Throw(e) == [kind |-> "throw", count |-> 0, err |-> e]
NoCompletion == [kind |-> "none", count |-> 0, err |-> NoErr]

\* the counters of the model count up to MaxCount
Inc(n) == IF n < MaxCount THEN n + 1 ELSE n

(***************************************************************************)
(* State.                                                                  *)
(***************************************************************************)
VARIABLES
    pc,           \* where search is: start, auth, fetching, pacing, writing, flushing, done
    tweets,       \* line 123: the accumulator
    next,         \* line 127: the cursor variable of the loop
    pending,      \* the completion of try/catch that the finally block holds back
    wdoc,         \* line 158: the text handed to fsp.writeFile
    outcome,      \* how the promise of search settled, as its caller sees it
    file,         \* OUTFILE on disk
    rpc,          \* where readTweetFile is: idle, reading, done
    readOut,      \* what the read-back produced
    tokenCalls,   \* requests sent to AUTH_URL
    fetchCalls,   \* requests sent to the search endpoint
    reqBody,      \* body of the latest search request
    pagesFetched, \* pages the search endpoint answered with
    lastCursor,   \* `next` of the latest such page
    received,     \* raw items of the pages processed to their end
    delays,       \* calls of rateLimiter
    writeCalls,   \* calls of fsp.writeFile
    firstErr,     \* the first error raised in the run
    inflight,     \* network requests sent and not yet settled
    timers,       \* rateLimiter timers set and not yet fired
    asked,        \* the cursors sent in page requests so far
    failedPage,   \* the page whose processing threw, if one did
    lastStatus,   \* status of the latest response of the search endpoint (0: none)
    writeResult,  \* how fsp.writeFile settled: none, ok, failed
    nIn, nOnce, nTwice, nStage,   \* the text normalisation on its own
    nItem, nTweet                 \* the normalisation of one raw item on its own

progVars == <<pc, tweets, next, pending, wdoc, outcome>>
readVars == <<rpc, readOut>>
histVars == <<tokenCalls, fetchCalls, reqBody, pagesFetched, lastCursor, received,
              delays, writeCalls, firstErr>>
netVars == <<inflight, timers, asked>>
respVars == <<failedPage, lastStatus>>
normVars == <<nIn, nOnce, nTwice, nStage, nItem, nTweet>>
vars == <<progVars, file, readVars, histVars, netVars, respVars, writeResult, normVars>>

\* OUTFILE: missing, or left by an earlier run (gen 0), or written by this run (gen 1)
NoFile == [exists |-> FALSE, complete |-> FALSE, doc |-> << >>, gen |-> 0]
OldFile ==
    [exists |-> TRUE, complete |-> TRUE,
     doc |-> Stringify(<< [text |-> <<"a">>, created_at |-> Some("t0")] >>), gen |-> 0]

NoBody == [query |-> NoQuery, hasNext |-> FALSE, next |-> CursorAbsent]

NoPage == [hasResults |-> FALSE, results |-> << >>, next |-> CursorAbsent]

\* the program before the module's top level has run
InitProgram ==
    /\ pc = "start"
    /\ tweets = << >>
    /\ next = CursorNull
    /\ pending = NoCompletion
    /\ wdoc = << >>
    /\ outcome = NoCompletion
    /\ file \in {NoFile, OldFile}
    /\ rpc = "idle"
    /\ readOut = [kind |-> "none", tweets |-> << >>, gen |-> 0]
    /\ tokenCalls = 0
    /\ fetchCalls = 0
    /\ reqBody = NoBody
    /\ pagesFetched = 0
    /\ lastCursor = CursorAbsent
    /\ received = << >>
    /\ delays = 0
    /\ writeCalls = 0
    /\ firstErr = NoErr
    /\ inflight = 0
    /\ timers = 0
    /\ asked = {}
    /\ failedPage = NoPage
    /\ lastStatus = 0
    /\ writeResult = "none"

\* no raw item drawn
NoItem == [truncated |-> FALSE, text |-> None, full |-> None, created_at |-> None]
NoResult == [ok |-> FALSE, tweet |-> [text |-> << >>, created_at |-> None]]

Init ==
    /\ InitProgram
    /\ nIn = << >>
    /\ nOnce = << >>
    /\ nTwice = << >>
    /\ nStage = "off"
    /\ nItem = NoItem
    /\ nTweet = NoResult

(***************************************************************************)
(* Pieces of search that several steps share.                              *)
(***************************************************************************)
\* a mutant of BuildBody: the cursor is left out of the request
BuildBodyNoCursor(query, cursor) ==
    [query |-> query, hasNext |-> FALSE, next |-> CursorAbsent]

\* lines 36-43: the request body; `next` is set only when it is truthy
BuildBody(query, cursor) ==
    IF Truthy(cursor)
    THEN [query |-> query, hasNext |-> TRUE, next |-> cursor]
    ELSE [query |-> query, hasNext |-> FALSE, next |-> CursorAbsent]

\* a mutant of LoopAgain: only null and undefined end the loop
LoopAgainUnlessNull(cursor) == cursor \notin {CursorAbsent, CursorNull}

\* a mutant of LoopAgain: do ... while (true)
LoopAgainAlways(cursor) == TRUE

\* line 147: while (next)
LoopAgain(cursor) == Truthy(cursor)

\* a mutant of Finally: the file is written only when the loop completed normally
FinallyOnReturnOnly(completion, tw) ==
    IF completion.kind = "return"
    THEN /\ pc' = "writing"
         /\ pending' = completion
         /\ wdoc' = Stringify(tw)
         /\ writeCalls' = Inc(writeCalls)
         /\ outcome' = outcome
    ELSE /\ pc' = "done"
         /\ pending' = completion
         /\ wdoc' = wdoc
         /\ writeCalls' = writeCalls
         /\ outcome' = completion

\* lines 157-159: the finally block is entered with the completion of
\* try/catch held back, and calls fsp.writeFile with the accumulator
Finally(completion, tw) ==
    /\ pc' = "writing"
    /\ pending' = completion
    /\ wdoc' = Stringify(tw)
    /\ writeCalls' = Inc(writeCalls)
    /\ outcome' = outcome

\* a mutant of Settle: a rejected write is ignored
SettleIgnoreWrite(completion, writeOk) == completion

\* lines 157-159: when the awaited write has settled: a rejected write throws
\* out of the finally block and takes the place of the completion held back
Settle(completion, writeOk) ==
    IF writeOk THEN completion ELSE Throw(WriteErr)

\* lines 129-130 and 36-52: getTweetBatch is called with the loop's cursor and
\* sends its request; `outstanding` requests are unsettled at that moment
CallGetTweetBatch(cursor, outstanding) ==
    /\ pc' = "fetching"
    /\ fetchCalls' = Inc(fetchCalls)
    /\ reqBody' = BuildBody(QUERY, cursor)
    /\ asked' = IF BuildBody(QUERY, cursor).hasNext
                THEN asked \cup {BuildBody(QUERY, cursor).next}
                ELSE asked
    /\ inflight' = outstanding + 1

\* a mutant of AfterPage: no delay after the last page
AfterPageNoDelayOnLast(cursor, tw) ==
    IF Truthy(cursor)
    THEN /\ pc' = "pacing"
         /\ delays' = Inc(delays)
         /\ timers' = timers + 1
         /\ inflight' = inflight - 1
         /\ UNCHANGED <<fetchCalls, reqBody, asked, pending, wdoc, writeCalls, outcome>>
    ELSE /\ Finally(Return(Len(tw)), tw)
         /\ inflight' = inflight - 1
         /\ UNCHANGED <<delays, timers, fetchCalls, reqBody, asked>>

\* a mutant of AfterPage: no delay after a page without items
AfterPageNoDelayOnEmpty(cursor, tw) ==
    IF tw # tweets
    THEN /\ pc' = "pacing"
         /\ delays' = Inc(delays)
         /\ timers' = timers + 1
         /\ inflight' = inflight - 1
         /\ UNCHANGED <<fetchCalls, reqBody, asked, pending, wdoc, writeCalls, outcome>>
    ELSE /\ UNCHANGED <<delays, timers>>
         /\ IF Truthy(cursor)
            THEN /\ CallGetTweetBatch(cursor, inflight - 1)
                 /\ UNCHANGED <<pending, wdoc, writeCalls, outcome>>
            ELSE /\ Finally(Return(Len(tw)), tw)
                 /\ inflight' = inflight - 1
                 /\ UNCHANGED <<fetchCalls, reqBody, asked>>

\* a mutant of AfterPage: rateLimiter is called but not awaited
AfterPageNotAwaited(cursor, tw) ==
    /\ delays' = Inc(delays)
    /\ timers' = timers + 1
    /\ IF Truthy(cursor)
       THEN /\ CallGetTweetBatch(cursor, inflight - 1)
            /\ UNCHANGED <<pending, wdoc, writeCalls, outcome>>
       ELSE /\ Finally(Return(Len(tw)), tw)
            /\ inflight' = inflight - 1
            /\ UNCHANGED <<fetchCalls, reqBody, asked>>

\* lines 144-145: after the for loop, with the page's request settled:
\* rateLimiter(3) is called (lines 167-175 set the timer) and awaited
AfterPage(cursor, tw) ==
    /\ pc' = "pacing"
    /\ delays' = Inc(delays)
    /\ timers' = timers + 1
    /\ inflight' = inflight - 1
    /\ UNCHANGED <<fetchCalls, reqBody, asked, pending, wdoc, writeCalls, outcome>>

(***************************************************************************)
(* The steps of the program.                                               *)
(***************************************************************************)
\* lines 203-217: the top level calls search, which runs to its first await
\* (lines 121-126 and 76-91: the token request is sent), and then, in the
\* same turn, readTweetFile, which runs to its own await (line 198)
Main ==
    /\ pc = "start"
    /\ pc' = "auth"
    /\ tweets' = << >>
    /\ tokenCalls' = Inc(tokenCalls)
    /\ inflight' = inflight + 1
    /\ rpc' = "reading"
    /\ UNCHANGED <<next, pending, wdoc, outcome, file, readOut, fetchCalls, reqBody,
                   pagesFetched, lastCursor, received, delays, writeCalls, firstErr,
                   timers, asked, respVars, writeResult, normVars>>

\* lines 93-96 and 126-130: the token arrives; next = null and the first
\* page is requested
TokenOk ==
    /\ pc = "auth"
    /\ next' = CursorNull
    /\ CallGetTweetBatch(CursorNull, inflight - 1)
    /\ UNCHANGED <<tweets, pending, wdoc, outcome, file, readVars, tokenCalls,
                   pagesFetched, lastCursor, received, delays, writeCalls, firstErr,
                   timers, respVars, writeResult, normVars>>

\* lines 97-107 and 151-158: the token request fails; getTwitterToken logs
\* and rethrows, search logs and rethrows, the finally block runs
TokenFail ==
    /\ pc = "auth"
    /\ \E f \in Failures :
         /\ firstErr' = FailureError("getTwitterToken", f)
         /\ Finally(Throw(FailureError("getTwitterToken", f)), tweets)
    /\ inflight' = inflight - 1
    /\ UNCHANGED <<tweets, next, file, readVars, tokenCalls, fetchCalls, reqBody,
                   pagesFetched, lastCursor, received, delays, timers, asked,
                   respVars, writeResult, normVars>>

\* lines 53-55 and 130-145: a page arrives and all of it is processed; the
\* cursor is taken over and rateLimiter is called
BatchOk ==
    /\ pc = "fetching"
    /\ \E page \in Pages :
         LET r == ProcessPage(tweets, page)
         IN  /\ Len(tweets) + Len(page.results) <= MaxTweets
             /\ next' = page.next
             /\ lastCursor' = page.next
             /\ r.ok
             /\ tweets' = r.tweets
             /\ received' = received \o page.results
             /\ AfterPage(page.next, r.tweets)
    /\ lastStatus' = 200
    /\ pagesFetched' = Inc(pagesFetched)
    /\ UNCHANGED <<file, readVars, tokenCalls, firstErr, failedPage, writeResult, normVars>>

\* lines 130-143 and 151-158: a page arrives and processing it throws; the
\* items pushed before the throw stay in the accumulator
BatchMalformed ==
    /\ pc = "fetching"
    /\ \E page \in Pages :
         LET r == ProcessPage(tweets, page)
         IN  /\ Len(tweets) + Len(page.results) <= MaxTweets
             /\ lastCursor' = page.next
             /\ failedPage' = page
             /\ ~r.ok
             /\ tweets' = r.tweets
             /\ Finally(Throw(TypeErr), r.tweets)
    /\ firstErr' = TypeErr
    /\ lastStatus' = 200
    /\ pagesFetched' = Inc(pagesFetched)
    /\ inflight' = inflight - 1
    /\ UNCHANGED <<next, file, readVars, tokenCalls, fetchCalls, reqBody, received,
                   delays, timers, asked, writeResult, normVars>>

\* a mutant of BatchFail: the first failed page request is sent again
BatchFailRetry ==
    /\ pc = "fetching"
    /\ \E f \in Failures :
         /\ firstErr' = IF firstErr = NoErr THEN FailureError("getTweetBatch", f) ELSE firstErr
         /\ lastStatus' = IF f.kind = "transport" THEN lastStatus ELSE f.status
         /\ IF firstErr = NoErr
            THEN /\ CallGetTweetBatch(next, inflight - 1)
                 /\ UNCHANGED <<pending, wdoc, writeCalls, outcome>>
            ELSE /\ Finally(Throw(FailureError("getTweetBatch", f)), tweets)
                 /\ inflight' = inflight - 1
                 /\ UNCHANGED <<fetchCalls, reqBody, asked>>
    /\ UNCHANGED <<tweets, next, file, readVars, tokenCalls, pagesFetched, lastCursor,
                   received, delays, timers, failedPage, writeResult, normVars>>

\* lines 57-67 and 151-158: the page request fails
BatchFail ==
    /\ pc = "fetching"
    /\ \E f \in Failures :
         /\ firstErr' = FailureError("getTweetBatch", f)
         /\ Finally(Throw(FailureError("getTweetBatch", f)), tweets)
         /\ lastStatus' = IF f.kind = "transport" THEN lastStatus ELSE f.status
    /\ inflight' = inflight - 1
    /\ UNCHANGED <<tweets, next, file, readVars, tokenCalls, fetchCalls, reqBody,
                   pagesFetched, lastCursor, received, delays, timers, asked,
                   failedPage, writeResult, normVars>>

\* lines 145-147 and 130: the timer fires and the loop goes round
PaceLoop ==
    /\ pc = "pacing"
    /\ LoopAgain(next)
    /\ timers' = timers - 1
    /\ CallGetTweetBatch(next, inflight)
    /\ UNCHANGED <<tweets, next, pending, wdoc, outcome, file, readVars, tokenCalls,
                   pagesFetched, lastCursor, received, delays, writeCalls, firstErr,
                   respVars, writeResult, normVars>>

\* lines 145-149 and 157-158: the timer fires and the loop ends; the return
\* of tweets.length is held back by the finally block
PaceExit ==
    /\ pc = "pacing"
    /\ ~LoopAgain(next)
    /\ timers' = timers - 1
    /\ Finally(Return(Len(tweets)), tweets)
    /\ UNCHANGED <<tweets, next, file, readVars, tokenCalls, fetchCalls, reqBody,
                   pagesFetched, lastCursor, received, delays, firstErr, inflight,
                   asked, respVars, writeResult, normVars>>

\* line 158, inside fsp.writeFile: OUTFILE is opened for writing, which
\* empties it
WriteOpen ==
    /\ pc = "writing"
    /\ pc' = "flushing"
    /\ file' = [exists |-> TRUE, complete |-> FALSE, doc |-> << >>, gen |-> 1]
    /\ UNCHANGED <<tweets, next, pending, wdoc, outcome, readVars, histVars, netVars,
                   respVars, writeResult, normVars>>

\* line 158: the write is complete; search settles with the completion
\* that was held back
WriteDone ==
    /\ pc = "flushing"
    /\ pc' = "done"
    /\ file' = [exists |-> TRUE, complete |-> TRUE, doc |-> wdoc, gen |-> 1]
    /\ outcome' = Settle(pending, TRUE)
    /\ writeResult' = "ok"
    /\ UNCHANGED <<tweets, next, pending, wdoc, readVars, histVars, netVars,
                   respVars, normVars>>

\* line 158: fsp.writeFile rejects, before or after it opened the file
WriteFail ==
    /\ pc \in {"writing", "flushing"}
    /\ pc' = "done"
    /\ outcome' = Settle(pending, FALSE)
    /\ writeResult' = "failed"
    /\ firstErr' = IF firstErr = NoErr THEN WriteErr ELSE firstErr
    /\ UNCHANGED <<tweets, next, pending, wdoc, file, readVars, tokenCalls, fetchCalls,
                   reqBody, pagesFetched, lastCursor, received, delays, writeCalls,
                   netVars, respVars, normVars>>

\* lines 198-199 and 215-217: the read of OUTFILE completes with what is on
\* disk at that moment: a missing file rejects, an incomplete one does not
\* parse, and otherwise the parsed tweets are printed
ReadSettle ==
    /\ rpc = "reading"
    /\ rpc' = "done"
    /\ readOut' =
         IF ~file.exists THEN [kind |-> "ENOENT", tweets |-> << >>, gen |-> file.gen]
         ELSE IF ~file.complete
              THEN [kind |-> "SyntaxError", tweets |-> << >>, gen |-> file.gen]
         ELSE [kind |-> "printed", tweets |-> Parse(file.doc), gen |-> file.gen]
    /\ UNCHANGED <<progVars, file, histVars, netVars, respVars, writeResult, normVars>>

Next ==
    \/ Main
    \/ TokenOk
    \/ TokenFail
    \/ BatchOk
    \/ BatchMalformed
    \/ BatchFail
    \/ PaceLoop
    \/ PaceExit
    \/ WriteOpen
    \/ WriteDone
    \/ WriteFail
    \/ ReadSettle

Spec == Init /\ [][Next]_vars

\* one step of search: at most one of them is enabled at a time
SearchStep ==
    \/ Main
    \/ TokenOk
    \/ TokenFail
    \/ BatchOk
    \/ BatchMalformed
    \/ BatchFail
    \/ PaceLoop
    \/ PaceExit
    \/ WriteOpen
    \/ WriteDone
    \/ WriteFail

\* Node's event loop runs every callback that is ready, and every request,
\* timer and file operation of the model settles: search takes its next
\* step, and the read-back settles
Fairness ==
    /\ WF_vars(SearchStep)
    /\ WF_vars(ReadSettle)

LiveSpec == Init /\ [][Next]_vars /\ Fairness

(***************************************************************************)
(* The text normalisation on its own: a raw text is drawn and normalised,  *)
(* and the result is normalised again.                                     *)
(***************************************************************************)
Texts == SeqsUpTo(Chars, MaxLen)

NormInit ==
    /\ InitProgram
    /\ nIn \in Texts
    /\ nOnce = << >>
    /\ nTwice = << >>
    /\ nStage = "raw"
    /\ nItem = NoItem
    /\ nTweet = NoResult

NormOnce ==
    /\ nStage = "raw"
    /\ nOnce' = NormalizeText(nIn)
    /\ nStage' = "once"
    /\ UNCHANGED <<progVars, file, readVars, histVars, netVars, respVars, writeResult,
                   nIn, nTwice, nItem, nTweet>>

NormTwice ==
    /\ nStage = "once"
    /\ nTwice' = NormalizeText(nOnce)
    /\ nStage' = "twice"
    /\ UNCHANGED <<progVars, file, readVars, histVars, netVars, respVars, writeResult,
                   nIn, nOnce, nItem, nTweet>>

NormNext == NormOnce \/ NormTwice

NormSpec == NormInit /\ [][NormNext]_vars

(***************************************************************************)
(* The normalisation of one raw item on its own: an item is drawn, with    *)
(* the field its flag selects any text or missing, and the loop body runs  *)
(* on it.                                                                  *)
(***************************************************************************)
\* what the field that the flag does not select may hold
OtherFields == {None, Some(<< >>), Some(<<"@">>), Some(<<"a", " ">>)}

Items ==
    { [truncated |-> tr,
       text |-> IF tr THEN o ELSE c,
       full |-> IF tr THEN c ELSE o,
       created_at |-> ca] :
         tr \in BOOLEAN, c \in {None} \cup {Some(t) : t \in Texts},
         o \in OtherFields, ca \in {None, Some("t1")} }

ItemInit ==
    /\ InitProgram
    /\ nIn = << >>
    /\ nOnce = << >>
    /\ nTwice = << >>
    /\ nStage = "item"
    /\ nItem \in Items
    /\ nTweet = NoResult

ItemNormalize ==
    /\ nStage = "item"
    /\ nTweet' = NormalizeItem(nItem)
    /\ nStage' = "itemDone"
    /\ UNCHANGED <<progVars, file, readVars, histVars, netVars, respVars, writeResult,
                   nIn, nOnce, nTwice, nItem>>

ItemNext == ItemNormalize

ItemSpec == ItemInit /\ [][ItemNext]_vars

(***************************************************************************)
(* What the run is expected to have stored.                                *)
(***************************************************************************)
\* the tweets that the raw items of the fully processed pages normalise to
Normalized(items) == [i \in 1..Len(items) |-> NormalizeItem(items[i]).tweet]

InLoop == pc \in {"start", "auth", "fetching", "pacing"}
InFinally == pc \in {"writing", "flushing"}
Settled == outcome.kind \in {"return", "throw"}

(***************************************************************************)
(* The claims.                                                             *)
(***************************************************************************)
\* C1: in every run fsp.writeFile is called exactly once, with the
\* accumulator as it then is; it is not called and the file is not touched
\* while authentication or the loop is in progress; search settles (count
\* or error) only after that call, and nothing of the run follows it.
C1_WriteOnceAtEnd ==
    /\ InLoop => /\ writeCalls = 0
                 /\ file \in {NoFile, OldFile}
                 /\ ~Settled
    /\ InFinally => /\ writeCalls = 1
                    /\ wdoc = Stringify(tweets)
                    /\ ~Settled
    /\ pc = "done" => /\ writeCalls = 1
                      /\ wdoc = Stringify(tweets)
                      /\ Settled
    /\ Settled => pc = "done"

\* a run that failed in the loop after a page was stored, and wrote its file
C1_Witness ==
    /\ pc = "done"
    /\ outcome.kind = "throw"
    /\ firstErr \in BatchErrors
    /\ Len(tweets) >= 1
    /\ file.gen = 1 /\ file.complete /\ file.doc = wdoc

C3_NoFetchAfterLastPage ==
    [][(pagesFetched > 0 /\ ~Truthy(lastCursor)) =>
           (pc' # "fetching" /\ fetchCalls' = fetchCalls /\ reqBody' = reqBody)]_vars

\* a run of two pages that ended on a page whose cursor is the empty string
C3_Witness ==
    /\ pc = "done"
    /\ outcome.kind = "return"
    /\ pagesFetched = 2 /\ fetchCalls = 2
    /\ lastCursor = ""

\* C4: the first page request carries no cursor; every later one carries
\* exactly the cursor of the page before it; one request is issued per page
\* that carried a cursor, and the loop is not left normally while the last
\* page carried one.
C4_CursorForwarded ==
    /\ (pc = "fetching" /\ pagesFetched = 0) =>
           (fetchCalls = 1 /\ ~reqBody.hasNext)
    /\ (pc = "fetching" /\ pagesFetched > 0) =>
           (Truthy(lastCursor) /\ reqBody.hasNext /\ reqBody.next = lastCursor)
    /\ (pc = "fetching" /\ fetchCalls < MaxCount) => fetchCalls = pagesFetched + 1
    /\ (pc = "pacing" /\ fetchCalls < MaxCount) => fetchCalls = pagesFetched
    /\ pending.kind = "return" => ~Truthy(lastCursor)

\* the third request of a run carries the second page's cursor, which
\* differs from the first page's
C4_Witness ==
    /\ pc = "fetching"
    /\ pagesFetched = 2
    /\ reqBody.hasNext /\ reqBody.next = "def"

\* C5: when the token request fails, search fails with that error, no page
\* request is made, and the file is written with an empty array.
C5_AuthFailure ==
    (pc = "done" /\ firstErr \in TokenErrors) =>
        /\ outcome = Throw(firstErr)
        /\ fetchCalls = 0
        /\ writeCalls = 1 /\ wdoc = Stringify(<< >>)

\* C5 with its result file written: what remains true of the code
C5_AuthFailureWritten ==
    (pc = "done" /\ firstErr \in TokenErrors /\ outcome.err # WriteErr) =>
        /\ outcome = Throw(firstErr)
        /\ fetchCalls = 0
        /\ file.complete /\ file.gen = 1 /\ file.doc = << >>

\* C6: when a page request fails, search fails with that error and the file
\* holds exactly the normalised items of the pages before it.
C6_FetchFailure ==
    (pc = "done" /\ firstErr \in BatchErrors) =>
        /\ outcome = Throw(firstErr)
        /\ writeCalls = 1 /\ wdoc = Stringify(Normalized(received))

\* C6 with its result file written: what remains true of the code
C6_FetchFailureWritten ==
    (pc = "done" /\ firstErr \in BatchErrors /\ outcome.err # WriteErr) =>
        /\ outcome = Throw(firstErr)
        /\ file.complete /\ file.gen = 1
        /\ Parse(file.doc) = Normalized(received)

\* C7: the error the caller of search observes is the error that was raised
\* first, on every exit path.
C7_FirstErrorReachesCaller ==
    (pc = "done" /\ firstErr # NoErr) => outcome = Throw(firstErr)

\* C8: the read-back settles only after search has settled, and prints what
\* this run wrote.
C8_ReadAfterRun ==
    rpc = "done" =>
        /\ pc = "done"
        /\ readOut.kind = "printed" /\ readOut.gen = 1
        /\ readOut.tweets = Parse(wdoc)

\* C9 as stated: every run ends.
C9_RunEnds == <>(pc = "done")

\* C9 as amended: a run ends, with the write performed, unless pages that
\* carry a next cursor keep arriving for ever.
C9_EndsUnlessPagesKeepComing ==
    \/ <>(pc = "done" /\ writeCalls = 1 /\ Settled)
    \/ []<>(pc = "pacing" /\ Truthy(next))

\* a run that ended after several pages
C9_Witness ==
    /\ pc = "done"
    /\ Settled
    /\ writeCalls = 1
    /\ pagesFetched >= 2

\* C10: normalising a normalised text gives that text again.
C10_Idempotent == nStage = "twice" => nTwice = nOnce

\* C11: every text in the accumulator is free of newlines, '@' and '#' and
\* has no whitespace at either end.
C11_AccumulatorClean ==
    \A i \in 1..Len(tweets) :
        LET t == tweets[i].text
        IN  /\ \A j \in 1..Len(t) : t[j] \notin {"\n", "\r", "@", "#"}
            /\ t # << >> => (~IsSpace(t[1]) /\ ~IsSpace(t[Len(t)]))

\* C12: the normalised text comes from the one field the truncation flag
\* selects (the run throws exactly when that field is missing), trimmed
\* first and with the replacement applied after; whatever the other field
\* holds, or whether it is there at all, changes nothing; created_at is
\* copied.
C12_OneFieldByFlag ==
    nStage = "itemDone" =>
        LET chosen == IF nItem.truncated THEN nItem.full ELSE nItem.text
        IN  /\ nTweet.ok = (chosen # None)
            /\ nTweet.ok =>
                 /\ nTweet.tweet.text = ReplaceAll(Trim(chosen[1]))
                 /\ nTweet.tweet.created_at = nItem.created_at
            /\ \A o \in OtherFields :
                 NormalizeItem(IF nItem.truncated
                               THEN [nItem EXCEPT !.text = o]
                               ELSE [nItem EXCEPT !.full = o]) = nTweet

\* a truncated item whose plain text is present too and differs
C12_Witness ==
    /\ nStage = "itemDone"
    /\ nItem.truncated
    /\ nItem.text = Some(<<"a", " ">>)
    /\ nItem.full = Some(<<" ", "@", "a">>)
    /\ nItem.created_at = Some("t1")
    /\ nTweet = [ok |-> TRUE, tweet |-> [text |-> <<" ", "a">>, created_at |-> Some("t1")]]

C14_DelaysOnlyBetweenFetches ==
    (pending.kind = "return" /\ fetchCalls < MaxCount) => delays = fetchCalls - 1

\* C14 as amended: a successful run of N pages calls rateLimiter N times,
\* once after every page, the last one included, and all N have fired.
C14_DelayAfterEveryPage ==
    (pending.kind = "return" /\ fetchCalls < MaxCount) =>
        /\ delays = fetchCalls
        /\ delays = pagesFetched
        /\ timers = 0

\* a successful run of two pages with two delays
C14_Witness ==
    /\ pc = "done"
    /\ outcome.kind = "return"
    /\ fetchCalls = 2 /\ pagesFetched = 2
    /\ delays = 2

\* C15: rateLimiter is called once for every page that was fetched and
\* processed, whatever its size and also after the last one, and a page
\* request is sent only when the delay before it has fired.
C15_DelayEachIteration ==
    /\ pagesFetched < MaxCount =>
           delays = (IF firstErr = TypeErr THEN pagesFetched - 1 ELSE pagesFetched)
    /\ pc = "pacing" => timers = 1
    /\ pc # "pacing" => timers = 0
    /\ (pc = "fetching" /\ fetchCalls < MaxCount) => delays = fetchCalls - 1

\* the delay after a first page that is empty and the last one
C15_Witness ==
    /\ pc = "pacing"
    /\ pagesFetched = 1
    /\ tweets = << >>
    /\ ~Truthy(next)
    /\ delays = 1 /\ timers = 1

\* C16: at most one network request is unsettled at any time, and none
\* while a pacing timer is set.
C16_OneRequestAtATime ==
    /\ inflight \in {0, 1}
    /\ timers \in {0, 1}
    /\ ~(inflight > 0 /\ timers > 0)
    /\ inflight = (IF pc \in {"auth", "fetching"} THEN 1 ELSE 0)

\* the third page request is the only one unsettled
C16_Witness ==
    /\ pc = "fetching"
    /\ pagesFetched = 2
    /\ inflight = 1 /\ timers = 0

\* C17 as stated: after a failed request nothing more is requested or
\* delayed, and no cursor is sent in two page requests.
C17_NoRetryNoRepeat ==
    [][/\ firstErr # NoErr =>
            (pc' \notin {"auth", "fetching", "pacing"} /\ inflight' = 0 /\ timers' = 0)
       /\ (pc' = "fetching" /\ pc # "fetching" /\ reqBody'.hasNext) =>
            reqBody'.next \notin asked]_vars

\* C17 as amended: after a failed request nothing more is requested or
\* delayed, and a page request is sent only after a page that was fetched
\* and processed without error, carrying that page's cursor.
C17_NoRetry ==
    [][/\ firstErr # NoErr =>
            /\ pc' \notin {"auth", "fetching", "pacing"}
            /\ inflight' = 0 /\ timers' = 0
            /\ reqBody' = reqBody /\ asked' = asked
       /\ (inflight' > 0 /\ (pc' # pc \/ reqBody' # reqBody)) =>
            /\ firstErr = NoErr /\ firstErr' = NoErr
            /\ pc \in {"start", "auth", "pacing"}
            /\ reqBody'.hasNext => (pc = "pacing" /\ reqBody'.next = lastCursor)]_vars

\* the server returned "abc" twice, it was sent twice, and the third page
\* request failed
C17_Witness ==
    /\ pc = "done"
    /\ firstErr \in BatchErrors
    /\ pagesFetched = 2 /\ fetchCalls = 3
    /\ asked = {"abc"}
    /\ inflight = 0 /\ delays = 2

\* C18: when processing a page throws, the items of that page before the
\* malformed one are in the accumulator after those of the earlier pages,
\* the accumulator is what is written, the run fails, and no delay and no
\* page request follows.
C18_PartialPageKept ==
    firstErr = TypeErr =>
        /\ \E k \in 0..Len(failedPage.results) :
             /\ tweets = Normalized(received \o SubSeq(failedPage.results, 1, k))
             /\ \A j \in 1..k : NormalizeItem(failedPage.results[j]).ok
             /\ IF k < Len(failedPage.results)
                THEN ~NormalizeItem(failedPage.results[k + 1]).ok
                ELSE ~failedPage.hasResults
        /\ pc \in {"writing", "flushing", "done"}
        /\ writeCalls = 1 /\ wdoc = Stringify(tweets)
        /\ inflight = 0 /\ timers = 0
        /\ pagesFetched < MaxCount => (fetchCalls = pagesFetched /\ delays = pagesFetched - 1)
        /\ pending.kind = "throw"
        /\ pc = "done" => outcome.kind = "throw"
        /\ writeResult = "ok" => Parse(file.doc) = tweets

\* the second page is malformed after its first item, and the file holds
\* the first page and that item
C18_Witness ==
    /\ firstErr = TypeErr
    /\ pc = "done" /\ writeResult = "ok"
    /\ pagesFetched = 2
    /\ Len(received) = 1
    /\ Len(failedPage.results) = 2
    /\ Len(tweets) = 2 /\ Len(file.doc) = 2

============================================================================
